---- MODULE Spec2Model ----
(***************************************************************************)
(* LocalLLM Studio: the inference-backend contract.                        *)
(*                                                                         *)
(* One backend instance (LlamaCppBackend, MLXBackend or                    *)
(* TransformersBackend) is driven by one owner thread that calls           *)
(* load_model / unload_model / generate / chat / count_tokens one at a     *)
(* time, while other threads may call stop_generation() and                *)
(* cancel_loading() at any moment.  load_model and the result generators   *)
(* are modelled statement group by statement group (variable pc), so that  *)
(* every state another thread can observe is a state of the model.         *)
(* The engines (llama_cpp, mlx_lm, transformers, huggingface_hub) are the  *)
(* environment: each call into them is a nondeterministic choice among     *)
(* the results and exceptions the call can produce.                        *)
(***************************************************************************)
EXTENDS Integers, Sequences, FiniteSets, TLC

\* ------------------------------------------------------------------ bounds
\* Chunks an engine emits in one streaming call before its final chunk.
MaxChunks == 2
\* stop_generation() calls counted between two generation calls.
MaxStops == 2
\* cancel_loading() calls counted between two load_model calls.
MaxCancels == 1
\* Files in one repository listing.
MaxFiles == 3

\* ------------------------------------------------------- program constants
\* llamacpp.py:198  max_retries = 3
max_retries == 3
\* llamacpp.py:199  retry_delay = 2  (seconds)
retry_delay == 2
\* llamacpp.py:75   n_ctx: int = 4096
n_ctx == 4096

Backends == {"llamacpp", "mlx", "transformers"}

\* Python None for a model/tokenizer/pipeline handle.
NoHandle == "None"
\* Python None for _model_info (a record, so that it compares with ModelInfo).
None == [name |-> "None", path |-> "None", context_length |-> 0, quantization |-> "None"]

VARIABLES
    backend,        \* which InferenceBackend subclass this instance is
    is_loaded,      \* InferenceBackend._is_loaded
    model_info,     \* InferenceBackend._model_info
    llm,            \* LlamaCppBackend._llm
    model,          \* InferenceBackend._model (MLX, Transformers)
    tokenizer,      \* InferenceBackend._tokenizer (MLX, Transformers)
    pipeline,       \* TransformersBackend._pipeline
    stop_event,     \* LlamaCppBackend._stop_event (threading.Event)
    hf_cache,       \* repositories of which the huggingface cache holds a .gguf
    pc,             \* position of the owner thread
    lastOp,         \* the operation the owner thread called last
    raised,         \* exception class that operation raised, or "none"
    returned,       \* value load_model returned
    preLoaded,      \* is_loaded when the last operation was called
    ref,            \* model_path argument of the running load_model
    path,           \* local variable model_path of load_model
    attempt,        \* loop variable of _download_from_hf
    attemptLog,     \* outcome of each attempt of the running download
    listCalls,      \* list_repo_files calls of the running download
    fetchCalls,     \* hf_hub_download calls of the running download
    waits,          \* time.sleep arguments of the running download
    dlResult,       \* how _download_from_hf ended: "none", "path", "raised"
    progress,       \* progress_callback fractions (tenths) of the running load
    cancelCalls,    \* cancel_loading() calls since load_model was called
    cancelAt,       \* phase of load_model at the first of them, or "none"
    is_cached,      \* local variable is_cached of load_model
    files,          \* what list_repo_files returned in the running attempt
    gguf_file,      \* local variable gguf_file of _download_from_hf
    available,      \* what is_available() returned: "none", "True", "False"
    trip,           \* the load_model / unload_model pair that preceded this load
    load_opts,      \* load_in_4bit / load_in_8bit arguments of the running load_model
    device,         \* TransformersBackend._device
    model_kwargs,   \* local variable model_kwargs of TransformersBackend.load_model
    webPc,          \* position of the worker thread of the Web UI's /api/load
    webTail,        \* what that worker itself has put on the queue q
    consumed,       \* items the response generator has taken from q
    sent,           \* events the response generator has yielded
    webEnded,       \* the response generator has left its loop
    call,           \* the running generation call: kind, stream, max_tokens
    tokens_generated, \* local variable of generate / chat
    yielded,        \* results the running generator has yielded, in order
    engine,         \* state of the engine's side of the call
    emitted,        \* chunks the engine has produced in this call
    pending,        \* chunk fetched from the engine stream, not yet processed
    queue,          \* TextIteratorStreamer queue (Transformers streaming)
    stopCalls,      \* stop_generation() calls since the call started
    stopAt,         \* Len(yielded) at the first of them made in flight, or -1
    engineFailed    \* the engine raised during this call

backendVars == <<backend, is_loaded, model_info, llm, model, tokenizer, pipeline, stop_event>>
opVars      == <<pc, lastOp, raised>>
loadLog     == <<returned, preLoaded, ref, path, attempt, attemptLog, listCalls,
                 fetchCalls, waits, dlResult, progress, cancelCalls, hf_cache,
                 cancelAt, is_cached, files, gguf_file, available, trip>>
webVars     == <<webPc, webTail, consumed, sent, webEnded>>
loadVars    == <<loadLog, load_opts, device, model_kwargs, webVars>>
genVars     == <<call, tokens_generated, yielded, engine, emitted, pending, queue,
                 stopCalls, stopAt, engineFailed>>
vars        == <<backendVars, opVars, loadVars, genVars>>


\* ------------------------------------------------------------ environment
\* model_path arguments: an existing local file, a missing local name, and two
\* repository ids, the second with one of the retry keywords in its name.
Refs == {"models/local-7b.Q4_K_M.gguf", "missing.gguf", "org/model-7b", "org/ssl-model"}

\* "/" in model_path
HasSlash(r) == r # "missing.gguf"
\* os.path.exists(p): the local file and what hf_hub_download returned exist.
PathExists(p) == p \in {"models/local-7b.Q4_K_M.gguf", "cache/model-7b.Q4_K_M.gguf", "cache/ssl-model.Q4_K_M.gguf"}
\* local_path returned by hf_hub_download for a repository
DownloadedPath(r) == IF r = "org/ssl-model" THEN "cache/ssl-model.Q4_K_M.gguf" ELSE "cache/model-7b.Q4_K_M.gguf"
\* a retry keyword ('connection','timeout','network','ssl','socket') occurs in the repository id
RepoIdHasTerm(r) == r = "org/ssl-model"
\* The model_path arguments that load_model treats as repository ids.
RemoteRefs == {r \in Refs : HasSlash(r) /\ ~PathExists(r)}

\* ------------------------------------------------- repository file listings
\* File names a repository can list: the same tag in upper and lower case, a
\* quantization outside the preference order, a second preferred tag, and a
\* tagged file that is not a .gguf file.
RepoFiles == {"a.Q4_K_M.gguf", "b.q4_k_m.gguf", "c.Q8_0.gguf", "d.Q4_K_S.gguf", "e.Q4_K_M.bin"}

\* The characters of a file name.
Chars(f) ==
    CASE f = "a.Q4_K_M.gguf" -> <<"a", ".", "Q", "4", "_", "K", "_", "M", ".", "g", "g", "u", "f">>
      [] f = "b.q4_k_m.gguf" -> <<"b", ".", "q", "4", "_", "k", "_", "m", ".", "g", "g", "u", "f">>
      [] f = "c.Q8_0.gguf" -> <<"c", ".", "Q", "8", "_", "0", ".", "g", "g", "u", "f">>
      [] f = "d.Q4_K_S.gguf" -> <<"d", ".", "Q", "4", "_", "K", "_", "S", ".", "g", "g", "u", "f">>
      [] f = "e.Q4_K_M.bin" -> <<"e", ".", "Q", "4", "_", "K", "_", "M", ".", "b", "i", "n">>

\* Python None for preferred / gguf_file.
NoFile == "None"

\* Sequences of at most n different files.
RECURSIVE ListingsUpTo(_)
ListingsUpTo(n) ==
    IF n = 0 THEN {<<>>}
    ELSE LET shorter == ListingsUpTo(n - 1)
         IN  shorter \cup {Append(l, f) : l \in shorter, f \in RepoFiles}

\* What list_repo_files can return: a repository lists each file once.
Listings ==
    {l \in ListingsUpTo(MaxFiles) : \A i, j \in 1..Len(l) : l[i] = l[j] => i = j}

\* A str.lower() that leaves every character as it is.
LowerIdentity(c) == c

\* str.lower() of one character (llamacpp.py:219).
Lower(c) ==
    CASE c = "K" -> "k"
      [] c = "M" -> "m"
      [] c = "Q" -> "q"
      [] c = "S" -> "s"
      [] OTHER -> c

\* s.lower()
LowerStr(s) == [i \in 1..Len(s) |-> Lower(s[i])]

\* pat in s  (substring test)
Contains(s, pat) ==
    \E i \in 0..(Len(s) - Len(pat)) : \A j \in 1..Len(pat) : s[i + j] = pat[j]

\* s.endswith(suf)
EndsWith(s, suf) ==
    /\ Len(s) >= Len(suf)
    /\ \A j \in 1..Len(suf) : s[Len(s) - Len(suf) + j] = suf[j]

\* llamacpp.py:208  f.endswith(".gguf")
IsGguf(f) == EndsWith(Chars(f), <<".", "g", "g", "u", "f">>)

\* llamacpp.py:208  gguf_files = [f for f in files if f.endswith(".gguf")]
gguf_files(fs) == SelectSeq(fs, IsGguf)

\* llamacpp.py:217  ["Q4_K_M", "Q4_K_S", "Q5_K_M", "Q4_0", "Q5_0"]
Patterns ==
    << <<"Q", "4", "_", "K", "_", "M">>,
       <<"Q", "4", "_", "K", "_", "S">>,
       <<"Q", "5", "_", "K", "_", "M">>,
       <<"Q", "4", "_", "0">>,
       <<"Q", "5", "_", "0">> >>

\* llamacpp.py:219  pattern.lower() in f.lower()
Matches(f, pattern) == Contains(LowerStr(Chars(f)), LowerStr(pattern))

\* llamacpp.py:218-221: the inner loop: the first file that matches the pattern.
FirstMatch(gs, pattern) ==
    IF \E i \in 1..Len(gs) : Matches(gs[i], pattern)
    THEN gs[CHOOSE i \in 1..Len(gs) :
               /\ Matches(gs[i], pattern)
               /\ \A j \in 1..(i - 1) : ~Matches(gs[j], pattern)]
    ELSE NoFile

\* llamacpp.py:216-223: the outer loop from pattern k on; it breaks at the
\* first pattern that set preferred.
RECURSIVE preferred(_, _)
preferred(gs, k) ==
    IF k > Len(Patterns) THEN NoFile
    ELSE IF FirstMatch(gs, Patterns[k]) # NoFile THEN FirstMatch(gs, Patterns[k])
    ELSE preferred(gs, k + 1)

\* llamacpp.py:225  gguf_file = preferred or gguf_files[0]
SelectFile(gs) == IF preferred(gs, 1) # NoFile THEN preferred(gs, 1) ELSE gs[1]

\* No load_model / unload_model pair precedes the running operation.
NoTrip == [stage |-> "none", ref |-> "none", info |-> None]

\* Exceptions list_repo_files / hf_hub_download raise: the class, and whether
\* str(e).lower() contains one of the retry keywords.
FetchErrors ==
    { [cls |-> "ConnectionError",   msgTerm |-> FALSE],
      [cls |-> "FileNotFoundError", msgTerm |-> FALSE],
      [cls |-> "FileNotFoundError", msgTerm |-> TRUE],
      [cls |-> "InterruptedError",  msgTerm |-> FALSE],
      [cls |-> "ValueError",        msgTerm |-> FALSE],
      [cls |-> "ValueError",        msgTerm |-> TRUE] }

\* term in error_type.lower() for one of the five terms
TypeNameHasTerm(cls) == cls = "ConnectionError"

\* What the message of an engine's load failure contains.
EngineLoadErrors == {"out of memory", "cuda", "other"}

\* ---------------------------------------------------------------- helpers
\* llamacpp.py:248  retryable = any(term in error_type.lower() or term in error_msg.lower() ...)
retryable(e) == TypeNameHasTerm(e.cls) \/ e.msgTerm

\* A retry loop that gives up one attempt early.
ShouldRetryOneLess(e, a) == retryable(e) /\ a < max_retries - 2

\* llamacpp.py:251  if retryable and attempt < max_retries - 1
ShouldRetry(e, a) == retryable(e) /\ a < max_retries - 1

\* A backoff that waits the base delay every time.
WaitTimeConstant(a) == retry_delay

\* llamacpp.py:252  wait_time = retry_delay * (2 ** attempt)
wait_time(a) == retry_delay * (2 ^ a)

\* llamacpp.py:257-261  what the handler raises when it does not retry
DownloadRaises(e) ==
    IF e.cls \in {"InterruptedError", "FileNotFoundError"} THEN e.cls ELSE "RuntimeError"

\* The except clauses around the engine's load call:
\* llamacpp.py:134-137, mlx_backend.py:79-82, transformers_backend.py:132-135
LoadErrorClass(b, msg) ==
    IF msg = "out of memory" \/ (b = "llamacpp" /\ msg = "cuda")
    THEN "MemoryError" ELSE "RuntimeError"

\* Path(model_path).stem / model_path.split("/")[-1]
ModelName(b, p) ==
    IF b = "llamacpp"
    THEN CASE p = "models/local-7b.Q4_K_M.gguf" -> "local-7b.Q4_K_M"
           [] p = "cache/model-7b.Q4_K_M.gguf"  -> "model-7b.Q4_K_M"
           [] p = "cache/ssl-model.Q4_K_M.gguf" -> "ssl-model.Q4_K_M"
           [] OTHER                            -> "missing"
    ELSE CASE p = "models/local-7b.Q4_K_M.gguf" -> "local-7b.Q4_K_M.gguf"
           [] p = "org/model-7b"                -> "model-7b"
           [] p = "org/ssl-model"               -> "ssl-model"
           [] OTHER                            -> p

\* A ModelInfo named after the cache entry when the artifact was found cached.
ModelInfoCachedName(b, p) ==
    [ name           |-> IF is_cached THEN "cached" ELSE ModelName(b, p),
      path           |-> p,
      context_length |-> n_ctx,
      quantization   |-> IF b = "llamacpp" THEN "Q4" ELSE "None" ]

\* load_model(model_path, load_in_4bit=False, load_in_8bit=False, ...)
\* transformers_backend.py:55-62
DefaultOptions == [load_in_4bit |-> FALSE, load_in_8bit |-> FALSE]

LoadOptions == [load_in_4bit : BOOLEAN, load_in_8bit : BOOLEAN]

\* transformers_backend.py:85-91
Devices == {"cuda", "mps", "cpu"}

\* model_kwargs before it is built
NoKwargs == [device_map |-> "None", quantization_config |-> "None", torch_dtype |-> "None"]

\* transformers_backend.py:98-122: the keyword arguments from_pretrained is
\* called with; bnb tells whether "from transformers import BitsAndBytesConfig"
\* succeeds.  A quantization config is built on cuda only, and only when that
\* import succeeds.
ModelKwargs(dev, o, bnb) ==
    CASE dev = "cuda" ->
           IF o.load_in_4bit
           THEN IF bnb
                THEN [device_map |-> "auto", quantization_config |-> "4bit", torch_dtype |-> "None"]
                ELSE [device_map |-> "auto", quantization_config |-> "None", torch_dtype |-> "float16"]
           ELSE IF o.load_in_8bit
           THEN IF bnb
                THEN [device_map |-> "auto", quantization_config |-> "8bit", torch_dtype |-> "None"]
                ELSE [device_map |-> "auto", quantization_config |-> "None", torch_dtype |-> "float16"]
           ELSE [device_map |-> "auto", quantization_config |-> "None", torch_dtype |-> "float16"]
      [] dev = "mps" ->
           [device_map |-> "None", quantization_config |-> "None", torch_dtype |-> "float16"]
      [] OTHER -> NoKwargs

\* transformers_backend.py:149-153: quant is set from the arguments.
quant(o) ==
    IF o.load_in_4bit THEN "4bit"
    ELSE IF o.load_in_8bit THEN "8bit"
    ELSE "None"

\* The ModelInfo each backend builds:
\* llamacpp.py:143-167, mlx_backend.py:87-111, transformers_backend.py:147-162
ModelInfo(b, p) ==
    [ name           |-> ModelName(b, p),
      path           |-> p,
      context_length |-> n_ctx,
      quantization   |-> IF b = "llamacpp" THEN "Q4"
                         ELSE IF b = "transformers" THEN quant(load_opts)
                         ELSE "None" ]

\* ------------------------------------------------------------------- Init
\* InferenceBackend.__init__ and the subclasses' __init__
Init ==
    /\ backend \in Backends
    /\ is_loaded = FALSE
    /\ model_info = None
    /\ llm = NoHandle
    /\ model = NoHandle
    /\ tokenizer = NoHandle
    /\ pipeline = NoHandle
    /\ stop_event = FALSE
    /\ hf_cache \in SUBSET RemoteRefs
    /\ pc = "idle"
    /\ lastOp = "init"
    /\ raised = "none"
    /\ returned = None
    /\ preLoaded = FALSE
    /\ ref = "none"
    /\ path = "none"
    /\ attempt = 0
    /\ attemptLog = <<>>
    /\ listCalls = 0
    /\ fetchCalls = 0
    /\ waits = <<>>
    /\ dlResult = "none"
    /\ progress = <<>>
    /\ cancelCalls = 0
    /\ cancelAt = "none"
    /\ is_cached = FALSE
    /\ files = <<>>
    /\ gguf_file = NoFile
    /\ available = "none"
    /\ trip = NoTrip
    /\ load_opts = DefaultOptions
    /\ device = "cpu"
    /\ model_kwargs = NoKwargs
    /\ webPc = "none"
    /\ webTail = <<>>
    /\ consumed = 0
    /\ sent = <<>>
    /\ webEnded = FALSE
    /\ call = [kind |-> "none", stream |-> FALSE, max_tokens |-> 0]
    /\ tokens_generated = 0
    /\ yielded = <<>>
    /\ engine = "none"
    /\ emitted = 0
    /\ pending = "none"
    /\ queue = <<>>
    /\ stopCalls = 0
    /\ stopAt = -1
    /\ engineFailed = FALSE

\* What is recorded about the previous operation is forgotten when the owner
\* thread calls the next one; r is the new operation's model_path, if any.
LoadLogReset(r) ==
    /\ returned' = None
    /\ preLoaded' = is_loaded
    /\ ref' = r
    /\ path' = r
    /\ attempt' = 0
    /\ attemptLog' = <<>>
    /\ listCalls' = 0
    /\ fetchCalls' = 0
    /\ waits' = <<>>
    /\ dlResult' = "none"
    /\ progress' = <<>>
    /\ cancelCalls' = 0
    /\ cancelAt' = "none"
    /\ is_cached' = FALSE
    /\ files' = <<>>
    /\ gguf_file' = NoFile
    /\ model_kwargs' = NoKwargs
    /\ UNCHANGED <<hf_cache, device>>

NoCall == [kind |-> "none", stream |-> FALSE, max_tokens |-> 0]

GenLogReset(c) ==
    /\ call' = c
    /\ tokens_generated' = 0
    /\ yielded' = <<>>
    /\ engine' = "none"
    /\ emitted' = 0
    /\ pending' = "none"
    /\ queue' = <<>>
    /\ stopCalls' = 0
    /\ stopAt' = -1
    /\ engineFailed' = FALSE

\* --------------------------------------------------------------- load_model
\* load_model raises cls to its caller.
LoadFails(cls) ==
    /\ pc' = "idle"
    /\ raised' = cls
    /\ UNCHANGED lastOp

LoadStep(next) ==
    /\ pc' = next
    /\ UNCHANGED <<lastOp, raised>>

\* The caller invokes load_model(model_path, progress_callback=...).
LoadModelCall(r, o) ==
    /\ pc = "idle"
    /\ pc' = "ld_import"
    /\ lastOp' = "load"
    /\ raised' = "none"
    /\ LoadLogReset(r)
    /\ load_opts' = o
    /\ available' = "none"
    /\ trip' = IF trip.stage = "unloaded" /\ trip.ref = r
               THEN [trip EXCEPT !.stage = "reload"]
               ELSE NoTrip
    /\ GenLogReset(NoCall)
    /\ UNCHANGED backendVars

\* load_model called by the owner thread.
LoadModelWith(r, o) == LoadModelCall(r, o) /\ UNCHANGED webVars

\* load_model called with the default options, as every caller in the
\* repository does (ui/web.py:1268-1270, api/server.py:187, __main__.py pass no
\* load_in_4bit / load_in_8bit).
LoadModel(r) == LoadModelWith(r, DefaultOptions)

\* llamacpp.py:93-96, mlx_backend.py:64-71, transformers_backend.py:72-81:
\* the import of the engine succeeds or the method raises ImportError.
\* transformers_backend.py:85-91: after the import the Transformers backend
\* picks the device the machine offers.
LoadImport ==
    /\ pc = "ld_import"
    /\ \/ /\ LoadStep(CASE backend = "llamacpp"     -> "ld_resolve"
                        [] backend = "mlx"          -> "ld_engine"
                        [] backend = "transformers" -> "ld_tokenizer")
          /\ IF backend = "transformers"
             THEN device' \in Devices
             ELSE UNCHANGED device
       \/ /\ LoadFails("ImportError")
          /\ UNCHANGED device
    /\ UNCHANGED <<backendVars, loadLog, load_opts, model_kwargs, webVars, genVars>>

\* llamacpp.py:54-70: the cache scan finds a .gguf of the repository or not; an
\* exception of the scan is swallowed and reported as "not cached".
is_model_cached(r) == IF r \in hf_cache THEN {TRUE, FALSE} ELSE {FALSE}

\* llamacpp.py:98-108 and 183-200: a repository id starts the download
\* (progress 0.1, 0.2 unless cached, then 0.1 in _download_from_hf);
\* anything else is used as a local path.
LoadResolve ==
    /\ pc = "ld_resolve"
    /\ IF HasSlash(ref) /\ ~PathExists(ref)
       THEN /\ is_cached' \in is_model_cached(ref)
            /\ progress' = progress \o <<1>> \o (IF is_cached' THEN <<>> ELSE <<2>>) \o <<1>>
            /\ LoadStep("dl_list")
       ELSE /\ UNCHANGED <<progress, is_cached>>
            /\ LoadStep("ld_exists")
    /\ UNCHANGED <<backendVars, genVars, returned, preLoaded, ref, path, attempt,
                   attemptLog, listCalls, fetchCalls, waits, dlResult, cancelCalls, hf_cache,
                   cancelAt, files, gguf_file, available, trip, load_opts, device, model_kwargs, webVars>>

\* What attemptLog records of a failed attempt: where it failed and how the
\* error is classified.
AttemptEntry(e, at) ==
    CASE at = "list"   -> (IF retryable(e) THEN "list_transient" ELSE "list_other")
      [] at = "filter" -> (IF retryable(e) THEN "filter_transient" ELSE "filter_other")
      [] at = "fetch"  -> (IF retryable(e) THEN "fetch_transient" ELSE "fetch_other")

\* llamacpp.py:240-261: the except clause of one attempt; at is "list"
\* (list_repo_files raised), "filter" (line 213 raised) or "fetch"
\* (hf_hub_download raised).  prog is the progress reported up to the failure,
\* fs the listing of the attempt.  A retry starts the next attempt, which
\* assigns files and gguf_file anew.
DownloadExcept(e, at, prog, fs) ==
    /\ attemptLog' = Append(attemptLog, AttemptEntry(e, at))
    /\ IF ShouldRetry(e, attempt)
       THEN /\ waits' = Append(waits, wait_time(attempt))
            /\ progress' = Append(prog, 1)
            /\ attempt' = attempt + 1
            /\ files' = <<>>
            /\ gguf_file' = NoFile
            /\ LoadStep("dl_list")
            /\ UNCHANGED dlResult
       ELSE /\ dlResult' = "raised"
            /\ LoadFails(DownloadRaises(e))
            /\ files' = fs
            /\ UNCHANGED <<waits, attempt, gguf_file>>
            /\ progress' = prog

\* llamacpp.py:213  FileNotFoundError(f"No GGUF files found in {repo_id}"): the
\* message holds a retry keyword when the repository id does.
NoGgufError(r) == [cls |-> "FileNotFoundError", msgTerm |-> RepoIdHasTerm(r)]

\* llamacpp.py:202-225: list_repo_files, the .gguf filter and the choice of
\* the file of one attempt.
DownloadListFrom(listings) ==
    /\ pc = "dl_list"
    /\ listCalls' = listCalls + 1
    /\ \/ \E fs \in listings :
            IF gguf_files(fs) # <<>>
            THEN /\ files' = fs
                 /\ gguf_file' = SelectFile(gguf_files(fs))
                 /\ LoadStep("dl_fetch")
                 /\ UNCHANGED <<attempt, attemptLog, waits, dlResult, progress>>
            ELSE DownloadExcept(NoGgufError(ref), "filter", progress, fs)
       \/ \E e \in FetchErrors : DownloadExcept(e, "list", progress, <<>>)
    /\ UNCHANGED <<backendVars, genVars, returned, preLoaded, ref, path, fetchCalls,
                   cancelCalls, hf_cache, cancelAt, is_cached, available, trip, load_opts, device, model_kwargs, webVars>>

\* What list_repo_files returns for the repositories of Refs: the files of a
\* repository with two quantizations, or of one without a .gguf file.
RepoListings ==
    { <<"c.Q8_0.gguf", "a.Q4_K_M.gguf">>, <<"e.Q4_K_M.bin">> }

DownloadList == DownloadListFrom(RepoListings)

\* llamacpp.py:227-238: progress 0.2 and hf_hub_download of one attempt.
DownloadFetch ==
    /\ pc = "dl_fetch"
    /\ fetchCalls' = fetchCalls + 1
    /\ \/ /\ progress' = Append(progress, 2)
          /\ path' = DownloadedPath(ref)
          /\ hf_cache' = hf_cache \cup {ref}
          /\ dlResult' = "path"
          /\ attemptLog' = Append(attemptLog, "fetch_ok")
          /\ LoadStep("ld_exists")
          /\ UNCHANGED <<attempt, waits, files, gguf_file>>
       \/ /\ \E e \in FetchErrors : DownloadExcept(e, "fetch", Append(progress, 2), files)
          /\ UNCHANGED <<path, hf_cache>>
    /\ UNCHANGED <<backendVars, genVars, returned, preLoaded, ref, listCalls, cancelCalls,
                   cancelAt, is_cached, available, trip, load_opts, device, model_kwargs, webVars>>

\* llamacpp.py:110-117: the path must exist; progress 0.8.
LoadExists ==
    /\ pc = "ld_exists"
    /\ IF PathExists(path)
       THEN /\ progress' = Append(progress, 8)
            /\ LoadStep("ld_engine")
       ELSE /\ UNCHANGED progress
            /\ LoadFails("FileNotFoundError")
    /\ UNCHANGED <<backendVars, genVars, returned, preLoaded, ref, path, attempt,
                   attemptLog, listCalls, fetchCalls, waits, dlResult, cancelCalls, hf_cache,
                   cancelAt, is_cached, files, gguf_file, available, trip, load_opts, device, model_kwargs, webVars>>

\* transformers_backend.py:85-96: device choice, then
\* self._tokenizer = AutoTokenizer.from_pretrained(...), outside any try.
LoadTokenizer ==
    /\ pc = "ld_tokenizer"
    /\ \/ /\ tokenizer' = "tokenizer"
          /\ \E bnb \in BOOLEAN : model_kwargs' = ModelKwargs(device, load_opts, bnb)
          /\ LoadStep("ld_engine")
       \/ /\ UNCHANGED <<tokenizer, model_kwargs>>
          /\ LoadFails("OSError")
    /\ UNCHANGED <<backend, is_loaded, model_info, llm, model, pipeline, stop_event,
                   loadLog, load_opts, device, webVars, genVars>>

\* llamacpp.py:125-137      self._llm = Llama(...)
\* mlx_backend.py:75-82     self._model, self._tokenizer = load(model_path)
\* transformers_backend.py:124-135  self._model = AutoModelForCausalLM.from_pretrained(...)
LoadEngine ==
    /\ pc = "ld_engine"
    /\ \/ /\ CASE backend = "llamacpp" ->
                     /\ llm' = "Llama"
                     /\ UNCHANGED <<model, tokenizer>>
                     /\ LoadStep("ld_setloaded")
               [] backend = "mlx" ->
                     /\ model' = "model"
                     /\ tokenizer' = "tokenizer"
                     /\ UNCHANGED llm
                     /\ LoadStep("ld_setloaded")
               [] backend = "transformers" ->
                     /\ model' = "model"
                     /\ UNCHANGED <<llm, tokenizer>>
                     /\ LoadStep("ld_pipeline")
       \/ /\ \E msg \in EngineLoadErrors : LoadFails(LoadErrorClass(backend, msg))
          /\ UNCHANGED <<llm, model, tokenizer>>
    /\ UNCHANGED <<backend, is_loaded, model_info, pipeline, stop_event, loadVars, genVars>>

\* transformers_backend.py:137-142: self._pipeline = pipeline(...), outside any try.
LoadPipeline ==
    /\ pc = "ld_pipeline"
    /\ \/ /\ pipeline' = "pipeline"
          /\ LoadStep("ld_setloaded")
       \/ /\ UNCHANGED pipeline
          /\ LoadFails("Exception")
    /\ UNCHANGED <<backend, is_loaded, model_info, llm, model, tokenizer, stop_event,
                   loadVars, genVars>>

\* llamacpp.py:139-140, mlx_backend.py:84, transformers_backend.py:144:
\* self._is_loaded = True, before the ModelInfo exists.
LoadSetLoaded ==
    /\ pc = "ld_setloaded"
    /\ is_loaded' = TRUE
    /\ LoadStep("ld_meta")
    /\ UNCHANGED <<backend, model_info, llm, model, tokenizer, pipeline, stop_event,
                   loadVars, genVars>>

\* llamacpp.py:142-167 (self._llm.n_vocab()), mlx_backend.py:86-111,
\* transformers_backend.py:146-162 (len(self._tokenizer)): the metadata is
\* read from the engine, outside any try, and self._model_info is assigned.
LoadMeta ==
    /\ pc = "ld_meta"
    /\ \/ /\ model_info' = ModelInfo(backend, path)
          /\ LoadStep("ld_ready")
       \/ /\ backend # "mlx"
          /\ UNCHANGED model_info
          /\ LoadFails("Exception")
    /\ UNCHANGED <<backend, is_loaded, llm, model, tokenizer, pipeline, stop_event,
                   loadVars, genVars>>

\* llamacpp.py:169-174 (progress "Ready", 1.0), mlx_backend.py:113-114,
\* transformers_backend.py:164-165: return self._model_info
LoadReturn ==
    /\ pc = "ld_ready"
    /\ progress' = IF backend = "llamacpp" THEN Append(progress, 10) ELSE progress
    /\ returned' = model_info
    /\ pc' = "idle"
    /\ UNCHANGED <<lastOp, raised>>
    /\ UNCHANGED <<backendVars, genVars, preLoaded, ref, path, attempt, attemptLog,
                   listCalls, fetchCalls, waits, dlResult, cancelCalls, hf_cache,
                   cancelAt, is_cached, files, gguf_file, available, trip, load_opts, device, model_kwargs, webVars>>

\* llamacpp.py:176-181: nothing ever assigns self._current_process, so
\* hasattr(self, '_current_process') is false and the method does nothing.
has_current_process == FALSE

\* Where the owner thread is when cancel_loading() is called: inside
\* _download_from_hf (llamacpp.py:183-261), elsewhere in load_model, or not
\* in load_model at all.
LoadPhase ==
    CASE pc \in {"dl_list", "dl_fetch"} -> "fetch"
      [] pc \in {"ld_import", "ld_resolve", "ld_exists", "ld_tokenizer", "ld_engine",
                 "ld_pipeline", "ld_setloaded", "ld_meta", "ld_ready"} -> "loading"
      [] OTHER -> "idle"

cancel_loading ==
    /\ backend = "llamacpp"
    /\ cancelCalls < MaxCancels
    /\ cancelCalls' = cancelCalls + 1
    /\ cancelAt' = IF cancelCalls = 0 THEN LoadPhase ELSE cancelAt
    /\ ~has_current_process
    /\ UNCHANGED <<backendVars, opVars, genVars, returned, preLoaded, ref, path, attempt,
                   attemptLog, listCalls, fetchCalls, waits, dlResult, progress, hf_cache,
                   is_cached, files, gguf_file, available, trip, load_opts, device, model_kwargs, webVars>>

\* ------------------------------------------------------------- unload_model
\* An unload_model that rejects the call when nothing is loaded, as generate does.
UnloadRaisesWhenUnloaded == IF is_loaded THEN "none" ELSE "RuntimeError"

\* llamacpp.py:263-276, mlx_backend.py:116-136, transformers_backend.py:167-191:
\* no statement of unload_model raises to the caller.
UnloadRaises == "none"

\* The handles are released, _model_info and _is_loaded are reset.
UnloadModelCall ==
    /\ pc = "idle"
    /\ lastOp' = "unload"
    /\ raised' = UnloadRaises
    /\ pc' = "idle"
    /\ IF raised' = "none"
       THEN /\ llm' = NoHandle
            /\ model' = NoHandle
            /\ tokenizer' = NoHandle
            /\ pipeline' = NoHandle
            /\ model_info' = None
            /\ is_loaded' = FALSE
       ELSE UNCHANGED <<llm, model, tokenizer, pipeline, model_info, is_loaded>>
    /\ UNCHANGED <<backend, stop_event>>
    /\ LoadLogReset("none")
    /\ load_opts' = DefaultOptions
    /\ available' = "none"
    /\ trip' = IF lastOp = "load" /\ raised = "none"
               THEN [stage |-> "unloaded", ref |-> ref, info |-> returned]
               ELSE NoTrip
    /\ GenLogReset(NoCall)

\* unload_model called by the owner thread.
unload_model == UnloadModelCall /\ UNCHANGED webVars

\* --------------------------------------------------------- generate / chat
\* GenerationResult(text, tokens_generated, finish_reason); text is "tok" for a
\* fragment, "full" for a whole completion, "Error" for f"Error: {e}", "" for none.
Result(text, n, reason) == [text |-> text, tokens_generated |-> n, finish_reason |-> reason]

\* GenerationConfig of a call; max_tokens is at most MaxChunks so that the
\* engine can reach it.
Calls == [kind : {"generate", "chat"}, stream : BOOLEAN, max_tokens : 1..MaxChunks]

InFlight == pc \in {"g_open", "g_next", "g_body", "g_join"}

\* The "not loaded" check that opens generate, chat and count_tokens:
\* llamacpp.py:284, 367, 463 (not self._is_loaded or self._llm is None);
\* mlx_backend.py:144, 219, 237 and transformers_backend.py:199, 294, 310
\* (not self._is_loaded).
NotLoaded ==
    IF backend = "llamacpp" THEN ~is_loaded \/ llm = NoHandle ELSE ~is_loaded

\* A chat that clears the flag before it checks that a model is loaded.
FlagClearedFirst(kind, rejected, flag) ==
    IF backend = "llamacpp" /\ kind = "chat" THEN FALSE ELSE flag

\* _stop_event after the prologue of a call: llamacpp.py:367-374 clears it in
\* chat, after the check; llamacpp.py:284-292 (generate) never touches it.
FlagAfterPrologue(kind, rejected, flag) ==
    IF backend = "llamacpp" /\ kind = "chat" /\ ~rejected THEN FALSE ELSE flag

\* The except clause of each generator: llamacpp.py:350-355 passes
\* tokens_generated; llamacpp.py:455-459, mlx_backend.py:207-211 and
\* transformers_backend.py:282-286 leave it at the default 0.
ErrorResult ==
    IF backend = "llamacpp" /\ call.kind = "generate"
    THEN Result("Error", tokens_generated, "error")
    ELSE Result("Error", 0, "error")

\* generate(prompt, config) / chat(messages, config) is called and iterated.
GenCall(c) ==
    /\ pc = "idle"
    /\ lastOp' = c.kind
    /\ stop_event' = FlagAfterPrologue(c.kind, NotLoaded, stop_event)
    /\ IF NotLoaded
       THEN /\ raised' = "RuntimeError"
            /\ pc' = "idle"
       ELSE /\ raised' = "none"
            /\ pc' = "g_open"
    /\ GenLogReset(c)
    /\ LoadLogReset("none")
    /\ load_opts' = DefaultOptions
    /\ UNCHANGED webVars
    /\ available' = "none"
    /\ trip' = NoTrip
    /\ UNCHANGED <<backend, is_loaded, model_info, llm, model, tokenizer, pipeline>>

\* llamacpp.py:461-465, mlx_backend.py:235-239, transformers_backend.py:308-312
count_tokens ==
    /\ pc = "idle"
    /\ lastOp' = "count_tokens"
    /\ raised' = IF NotLoaded THEN "RuntimeError" ELSE "none"
    /\ pc' = "idle"
    /\ GenLogReset(NoCall)
    /\ LoadLogReset("none")
    /\ load_opts' = DefaultOptions
    /\ UNCHANGED webVars
    /\ available' = "none"
    /\ trip' = NoTrip
    /\ UNCHANGED backendVars

\* What importing the engine's package can do when is_available() probes it.
Probes == {"present", "ImportError", "OSError"}

\* The except clauses of is_available: llamacpp.py:51 and
\* transformers_backend.py:52 catch ImportError only; mlx_backend.py:48-51
\* catches ImportError and Exception.
ProbeCaught(b, probe) == probe = "ImportError" \/ b = "mlx"

\* llamacpp.py:46-52, mlx_backend.py:41-51, transformers_backend.py:46-53
is_available ==
    /\ pc = "idle"
    /\ lastOp' = "is_available"
    /\ pc' = "idle"
    /\ \E probe \in Probes :
          CASE probe = "present" ->
                  /\ available' = "True"
                  /\ raised' = "none"
            [] probe # "present" /\ ProbeCaught(backend, probe) ->
                  /\ available' = "False"
                  /\ raised' = "none"
            [] OTHER ->
                  /\ available' = "none"
                  /\ raised' = probe
    /\ GenLogReset(NoCall)
    /\ LoadLogReset("none")
    /\ load_opts' = DefaultOptions
    /\ UNCHANGED webVars
    /\ trip' = NoTrip
    /\ UNCHANGED backendVars

\* llamacpp.py:357-359  self._stop_event.set()
stop_generation ==
    /\ backend = "llamacpp"
    /\ stopCalls < MaxStops
    /\ stop_event' = TRUE
    /\ stopCalls' = stopCalls + 1
    /\ stopAt' = IF InFlight /\ stopAt = -1 THEN Len(yielded) ELSE stopAt
    /\ UNCHANGED <<backend, is_loaded, model_info, llm, model, tokenizer, pipeline,
                   opVars, loadVars, call, tokens_generated, yielded, engine, emitted,
                   pending, queue, engineFailed>>

\* The generator yields result r and moves to position next.
Yield(r, next) ==
    /\ yielded' = Append(yielded, r)
    /\ pc' = next
    /\ UNCHANGED <<lastOp, raised>>

\* The engine raises inside the generator's try: one "error" result, then the
\* generator ends.
EngineRaises ==
    /\ engine' = "raised"
    /\ engineFailed' = TRUE
    /\ Yield(ErrorResult, "g_done")

\* finish_reason the engine reports when it stops after n tokens.
EngineFinish(n) == IF n >= call.max_tokens THEN "length" ELSE "stop"

\* Token counts a blocking engine call can report for max_tokens.
CompletionTokens == 0..call.max_tokens

\* len(self._tokenizer.encode(text)) for a text of n generated tokens: the
\* tokenizer may add a special token.
EncodedLen(n) == {n, n + 1}

\* ------------------------------------------------ NativeRunner (llama.cpp)
\* A cancelled chat that goes on with the loop instead of returning.
AfterCancelContinue == "g_next"

\* llamacpp.py:401  return, after the "stop" result of a cancelled chat
AfterCancelYield == "g_done"

\* llamacpp.py:294-306 / 324-348 (generate) and 380-391 / 429-453 (chat):
\* the engine call that opens the try block.  With stream=True it returns the
\* chunk iterator; without, it blocks and returns the whole completion, and
\* chat first returns without a result when the flag is set (431-432).
LlamaOpen ==
    /\ pc = "g_open"
    /\ backend = "llamacpp"
    /\ IF call.stream
       THEN \/ /\ engine' = IF call.kind = "chat" THEN "open" ELSE "streaming"
               /\ pc' = "g_next"
               /\ UNCHANGED <<lastOp, raised, yielded, tokens_generated, engineFailed>>
            \/ /\ EngineRaises
               /\ UNCHANGED tokens_generated
       ELSE IF call.kind = "chat" /\ stop_event
            THEN /\ pc' = "g_done"
                 /\ UNCHANGED <<lastOp, raised, yielded, tokens_generated, engine, engineFailed>>
            ELSE \/ \E n \in CompletionTokens :
                      /\ tokens_generated' = n
                      /\ engine' = "ended"
                      /\ Yield(Result("full", n, EngineFinish(n)), "g_done")
                      /\ UNCHANGED engineFailed
                 \/ /\ EngineRaises
                    /\ UNCHANGED tokens_generated
    /\ UNCHANGED <<backendVars, loadVars, call, emitted, pending, queue, stopCalls, stopAt>>

\* llamacpp.py:308-323: one turn of "for output in stream" in generate.  The
\* engine hands out text chunks with finish_reason None, then one last chunk
\* with the finish_reason, then ends; every chunk is counted and yielded.
LlamaGenerateNext ==
    /\ pc = "g_next"
    /\ backend = "llamacpp"
    /\ call.kind = "generate"
    /\ \/ /\ engine = "streaming"
          /\ emitted < call.max_tokens
          /\ emitted' = emitted + 1
          /\ tokens_generated' = tokens_generated + 1
          /\ Yield(Result("tok", tokens_generated', "generating"), "g_next")
          /\ UNCHANGED <<engine, engineFailed>>
       \/ /\ engine = "streaming"
          /\ engine' = "final"
          /\ tokens_generated' = tokens_generated + 1
          /\ Yield(Result("", tokens_generated', EngineFinish(emitted)), "g_next")
          /\ UNCHANGED <<emitted, engineFailed>>
       \/ /\ engine = "streaming"
          /\ EngineRaises
          /\ UNCHANGED <<emitted, tokens_generated>>
       \/ /\ engine = "final"
          /\ engine' = "ended"
          /\ pc' = "g_done"
          /\ UNCHANGED <<lastOp, raised, yielded, emitted, tokens_generated, engineFailed>>
    /\ UNCHANGED <<backendVars, loadVars, call, pending, queue, stopCalls, stopAt>>

\* llamacpp.py:393 and 420-428: "for output in stream" of chat fetches the
\* next chunk (a first chunk without content, content chunks, a last chunk
\* without content), or the stream ends and the final "stop" result is yielded.
LlamaChatNext ==
    /\ pc = "g_next"
    /\ backend = "llamacpp"
    /\ call.kind = "chat"
    /\ \/ /\ engine = "open"
          /\ engine' = "streaming"
          /\ pending' = "empty"
          /\ pc' = "g_body"
          /\ UNCHANGED <<lastOp, raised, yielded, emitted, engineFailed>>
       \/ /\ engine = "streaming"
          /\ emitted < call.max_tokens
          /\ emitted' = emitted + 1
          /\ pending' = "content"
          /\ pc' = "g_body"
          /\ UNCHANGED <<lastOp, raised, yielded, engine, engineFailed>>
       \/ /\ engine = "streaming"
          /\ engine' = "final"
          /\ pending' = "empty"
          /\ pc' = "g_body"
          /\ UNCHANGED <<lastOp, raised, yielded, emitted, engineFailed>>
       \/ /\ engine \in {"open", "streaming"}
          /\ EngineRaises
          /\ UNCHANGED <<emitted, pending>>
       \/ /\ engine = "final"
          /\ engine' = "ended"
          /\ Yield(Result("", tokens_generated, "stop"), "g_done")
          /\ UNCHANGED <<emitted, pending, engineFailed>>
    /\ UNCHANGED <<backendVars, loadVars, call, tokens_generated, queue, stopCalls, stopAt>>

\* llamacpp.py:394-418: the body of the loop: the cancellation check, then the
\* fragment, if the chunk has content.
LlamaChatBody ==
    /\ pc = "g_body"
    /\ pending' = "none"
    /\ IF stop_event
       THEN /\ Yield(Result("", tokens_generated, "stop"), AfterCancelYield)
            /\ UNCHANGED tokens_generated
       ELSE IF pending = "content"
            THEN /\ tokens_generated' = tokens_generated + 1
                 /\ Yield(Result("tok", tokens_generated', "generating"), "g_next")
            ELSE /\ pc' = "g_next"
                 /\ UNCHANGED <<lastOp, raised, yielded, tokens_generated>>
    /\ UNCHANGED <<backendVars, loadVars, call, engine, emitted, queue, stopCalls, stopAt,
                   engineFailed>>

\* --------------------------------------------------- AppleSiliconRunner (MLX)
\* mlx_backend.py:154-205 (chat, 213-233, delegates to generate): streaming
\* goes straight into the for loop; the blocking call yields one "stop" result
\* counted by re-encoding the text.
MlxOpen ==
    /\ pc = "g_open"
    /\ backend = "mlx"
    /\ IF call.stream
       THEN /\ engine' = "streaming"
            /\ pc' = "g_next"
            /\ UNCHANGED <<lastOp, raised, yielded, tokens_generated, engineFailed>>
       ELSE \/ \E n \in CompletionTokens : \E k \in EncodedLen(n) :
                 /\ engine' = "ended"
                 /\ Yield(Result("full", k, "stop"), "g_done")
                 /\ UNCHANGED <<tokens_generated, engineFailed>>
            \/ /\ EngineRaises
               /\ UNCHANGED tokens_generated
    /\ UNCHANGED <<backendVars, loadVars, call, emitted, pending, queue, stopCalls, stopAt>>

\* mlx_backend.py:157-186: one turn of "for response in self._stream_func(...)",
\* or its end and the final "stop" result.
MlxNext ==
    /\ pc = "g_next"
    /\ backend = "mlx"
    /\ \/ /\ emitted < call.max_tokens
          /\ emitted' = emitted + 1
          /\ tokens_generated' = tokens_generated + 1
          /\ Yield(Result("tok", tokens_generated', "generating"), "g_next")
          /\ UNCHANGED <<engine, engineFailed>>
       \/ /\ engine' = "ended"
          /\ Yield(Result("", tokens_generated, "stop"), "g_done")
          /\ UNCHANGED <<emitted, tokens_generated, engineFailed>>
       \/ /\ EngineRaises
          /\ UNCHANGED <<emitted, tokens_generated>>
    /\ UNCHANGED <<backendVars, loadVars, call, pending, queue, stopCalls, stopAt>>

\* ------------------------------------------- UniversalRunner (Transformers)
\* transformers_backend.py:207-234 / 259-280 (chat, 288-306, delegates to
\* generate): streaming builds the streamer and the inputs, then starts the
\* thread that runs self._model.generate; the blocking call yields one "stop"
\* result counted by re-encoding the text.
TfOpen ==
    /\ pc = "g_open"
    /\ backend = "transformers"
    /\ IF call.stream
       THEN \/ /\ engine' = "running"
               /\ pc' = "g_next"
               /\ UNCHANGED <<lastOp, raised, yielded, engineFailed>>
            \/ EngineRaises
       ELSE \/ \E n \in CompletionTokens : \E k \in EncodedLen(n) :
                 /\ engine' = "ended"
                 /\ Yield(Result("full", k, "stop"), "g_done")
                 /\ UNCHANGED engineFailed
            \/ EngineRaises
    /\ UNCHANGED <<backendVars, loadVars, call, tokens_generated, emitted, pending, queue,
                   stopCalls, stopAt>>

\* The text of the k-th fragment the engine decodes in one call.
FragmentText(k) ==
    CASE k = 1 -> "tok1"
      [] k = 2 -> "tok2"
      [] k = 3 -> "tok3"
      [] OTHER -> "tokN"

\* The producer thread (transformers_backend.py:233-234): the engine puts a
\* fragment into the streamer's queue ...
ProducerPut ==
    /\ backend = "transformers"
    /\ engine = "running"
    /\ emitted < call.max_tokens
    /\ emitted' = emitted + 1
    /\ queue' = Append(queue, FragmentText(emitted'))
    /\ UNCHANGED <<backendVars, opVars, loadVars, call, tokens_generated, yielded, engine,
                   pending, stopCalls, stopAt, engineFailed>>

\* ... or ends the stream (streamer.end() puts the stop signal) ...
ProducerEnd ==
    /\ backend = "transformers"
    /\ engine = "running"
    /\ engine' = "ending"
    /\ queue' = Append(queue, "END")
    /\ UNCHANGED <<backendVars, opVars, loadVars, call, tokens_generated, yielded, emitted,
                   pending, stopCalls, stopAt, engineFailed>>

\* ... after which self._model.generate returns and the thread exits ...
ProducerExit ==
    /\ backend = "transformers"
    /\ engine = "ending"
    /\ engine' = "finished"
    /\ UNCHANGED <<backendVars, opVars, loadVars, call, tokens_generated, yielded, emitted,
                   pending, queue, stopCalls, stopAt, engineFailed>>

\* ... or self._model.generate raises in the thread: the thread dies and no
\* stop signal is ever put.
ProducerCrash ==
    /\ backend = "transformers"
    /\ engine = "running"
    /\ engine' = "crashed"
    /\ engineFailed' = TRUE
    /\ UNCHANGED <<backendVars, opVars, loadVars, call, tokens_generated, yielded, emitted,
                   pending, queue, stopCalls, stopAt>>

\* transformers_backend.py:236-247: "for text in streamer" blocks on the queue;
\* a fragment is counted and yielded, the stop signal ends the loop.
TfNext ==
    /\ pc = "g_next"
    /\ backend = "transformers"
    /\ queue # <<>>
    /\ queue' = Tail(queue)
    /\ IF Head(queue) = "END"
       THEN /\ pc' = "g_join"
            /\ UNCHANGED <<lastOp, raised, yielded, tokens_generated>>
       ELSE /\ tokens_generated' = tokens_generated + 1
            /\ Yield(Result(Head(queue), tokens_generated', "generating"), "g_next")
    /\ UNCHANGED <<backendVars, loadVars, call, engine, emitted, pending, stopCalls, stopAt,
                   engineFailed>>

\* A consumer that yields the final result without joining the thread.
TfJoinNoWait ==
    /\ pc = "g_join"
    /\ backend = "transformers"
    /\ Yield(Result("", tokens_generated, "stop"), "g_done")
    /\ UNCHANGED <<backendVars, loadVars, call, tokens_generated, engine, emitted, pending,
                   queue, stopCalls, stopAt, engineFailed>>

\* transformers_backend.py:249-258: thread.join(), then the final "stop" result.
TfJoin ==
    /\ pc = "g_join"
    /\ backend = "transformers"
    /\ engine \in {"finished", "crashed"}
    /\ Yield(Result("", tokens_generated, "stop"), "g_done")
    /\ UNCHANGED <<backendVars, loadVars, call, tokens_generated, engine, emitted, pending,
                   queue, stopCalls, stopAt, engineFailed>>

\* A generator whose end releases the model.
GenReturnUnloads ==
    /\ pc = "g_done"
    /\ pc' = "idle"
    /\ is_loaded' = FALSE
    /\ model_info' = None
    /\ UNCHANGED <<lastOp, raised, backend, llm, model, tokenizer, pipeline, stop_event,
                   loadVars, genVars>>

\* The generator is exhausted: the caller's for loop ends.
GenReturn ==
    /\ pc = "g_done"
    /\ pc' = "idle"
    /\ UNCHANGED <<lastOp, raised, backendVars, loadVars, genVars>>

\* ------------------------------------------------ gateway (api/server.py)
\* One server-sent event: a content delta, a finish chunk, the error object
\* or the "[DONE]" line.
Event(type, text, reason) == [type |-> type, text |-> text, finish_reason |-> reason]

DoneEvent == Event("done", "", "None")

\* server.py:224-236: a result with text becomes a chunk whose delta is the
\* text and whose finish_reason is None.
ContentEvents(r) == IF r.text # "" THEN <<Event("delta", r.text, "None")>> ELSE <<>>

\* server.py:238-250: a result with finish_reason "stop" or "length" becomes a
\* chunk with an empty delta and that finish_reason.
FinishEvents(r) ==
    IF r.finish_reason \in {"stop", "length"}
    THEN <<Event("finish", "", r.finish_reason)>>
    ELSE <<>>

\* server.py:223-250 (_stream_chat_response) and 309-322
\* (_stream_completion_response): the events of the results consumed so far.
\* The completion stream has no finish chunk.
RECURSIVE ResultEvents(_, _)
ResultEvents(kind, results) ==
    IF results = <<>> THEN <<>>
    ELSE ContentEvents(Head(results))
         \o (IF kind = "chat" THEN FinishEvents(Head(results)) ELSE <<>>)
         \o ResultEvents(kind, Tail(results))

\* What the gateway has streamed for the running or last generation call: the
\* events of the results, then "[DONE]" once the backend's generator is
\* exhausted (server.py:252, 324).  When the backend raises, the chat stream
\* ends with the error object (254-256) and the completion stream ends there.
GatewayEvents ==
    IF raised # "none"
    THEN ResultEvents(call.kind, yielded)
         \o (IF call.kind = "chat" THEN <<Event("error", "Error", "None")>> ELSE <<>>)
    ELSE ResultEvents(call.kind, yielded)
         \o (IF pc = "idle" THEN <<DoneEvent>> ELSE <<>>)

\* ------------------------------------------------------------ specification
Next ==
    \/ \E r \in Refs : LoadModel(r)
    \/ LoadImport
    \/ LoadResolve
    \/ DownloadList
    \/ DownloadFetch
    \/ LoadExists
    \/ LoadTokenizer
    \/ LoadEngine
    \/ LoadPipeline
    \/ LoadSetLoaded
    \/ LoadMeta
    \/ LoadReturn
    \/ cancel_loading
    \/ unload_model
    \/ \E c \in Calls : GenCall(c)
    \/ count_tokens
    \/ is_available
    \/ stop_generation
    \/ LlamaOpen
    \/ LlamaGenerateNext
    \/ LlamaChatNext
    \/ LlamaChatBody
    \/ MlxOpen
    \/ MlxNext
    \/ TfOpen
    \/ ProducerPut
    \/ ProducerEnd
    \/ ProducerExit
    \/ ProducerCrash
    \/ TfNext
    \/ TfJoin
    \/ GenReturn

Spec == Init /\ [][Next]_vars

\* The consumer of a Transformers stream keeps iterating (the gateway's for
\* loop), and the producer thread, once started, keeps running until
\* self._model.generate returns or raises (transformers_backend.py:233-249).
StreamFairness ==
    /\ WF_vars(TfOpen)
    /\ WF_vars(TfNext)
    /\ WF_vars(TfJoin)
    /\ WF_vars(ProducerEnd)
    /\ WF_vars(ProducerExit)

LiveSpec == Spec /\ StreamFairness

\* ------------------------------------ the file choice over every listing
\* A load_model of a repository id on a fresh LlamaCppBackend that has reached
\* the first attempt of _download_from_hf (llamacpp.py:202).
SelectInit ==
    /\ backend = "llamacpp"
    /\ is_loaded = FALSE
    /\ model_info = None
    /\ llm = NoHandle
    /\ model = NoHandle
    /\ tokenizer = NoHandle
    /\ pipeline = NoHandle
    /\ stop_event = FALSE
    /\ hf_cache \in SUBSET RemoteRefs
    /\ pc = "dl_list"
    /\ lastOp = "load"
    /\ raised = "none"
    /\ returned = None
    /\ preLoaded = FALSE
    /\ ref \in RemoteRefs
    /\ path = ref
    /\ attempt = 0
    /\ attemptLog = <<>>
    /\ listCalls = 0
    /\ fetchCalls = 0
    /\ waits = <<>>
    /\ dlResult = "none"
    /\ is_cached \in is_model_cached(ref)
    /\ progress = <<1>> \o (IF is_cached THEN <<>> ELSE <<2>>) \o <<1>>
    /\ cancelCalls = 0
    /\ cancelAt = "none"
    /\ files = <<>>
    /\ gguf_file = NoFile
    /\ available = "none"
    /\ trip = NoTrip
    /\ load_opts = DefaultOptions
    /\ device = "cpu"
    /\ model_kwargs = NoKwargs
    /\ webPc = "none"
    /\ webTail = <<>>
    /\ consumed = 0
    /\ sent = <<>>
    /\ webEnded = FALSE
    /\ call = NoCall
    /\ tokens_generated = 0
    /\ yielded = <<>>
    /\ engine = "none"
    /\ emitted = 0
    /\ pending = "none"
    /\ queue = <<>>
    /\ stopCalls = 0
    /\ stopAt = -1
    /\ engineFailed = FALSE

\* llamacpp.py:202-225 with list_repo_files returning any listing.
DownloadListAny == DownloadListFrom(Listings)

SelectNext == DownloadListAny

SpecSelect == SelectInit /\ [][SelectNext]_vars

\* ------------------------------------ Transformers load with any options
\* TransformersBackend.load_model called with any load_in_4bit / load_in_8bit
\* on any device, with or without bitsandbytes.
QuantInit == Init /\ backend = "transformers"

QuantNext ==
    \/ \E r \in Refs, o \in LoadOptions : LoadModelWith(r, o)
    \/ LoadImport
    \/ LoadTokenizer
    \/ LoadEngine
    \/ LoadPipeline
    \/ LoadSetLoaded
    \/ LoadMeta
    \/ LoadReturn
    \/ unload_model

SpecQuant == QuantInit /\ [][QuantNext]_vars

\* ------------------------------------------- Web UI /api/load (ui/web.py)
\* Items of the queue q: a progress update, the success or error outcome, and
\* the sentinel None.
ProgressItem(f) == [kind |-> "progress", progress |-> f, message |-> "status"]
SuccessItem(name) == [kind |-> "success", progress |-> 0, message |-> name]
ErrorItem(e) == [kind |-> "error", progress |-> 0, message |-> e]
Sentinel == [kind |-> "None", progress |-> 0, message |-> "None"]

\* web.py:1258-1259: progress_callback puts one item per call, in call order;
\* load_model is the only caller and runs in the worker thread.
ProgressItems == [i \in 1..Len(progress) |-> ProgressItem(progress[i])]

\* The content of q since the request started: what progress_callback put
\* during the worker's load_model, then what the worker put itself.
WebQueue ==
    (IF webPc \in {"loading", "except", "finally", "done"} THEN ProgressItems ELSE <<>>)
    \o webTail

\* web.py:1249-1256, 1278-1279: a POST /api/load creates the queue and starts
\* the worker thread.  One request is served at a time.
WebRequest ==
    /\ pc = "idle"
    /\ webPc = "none" \/ (webPc = "done" /\ webEnded)
    /\ webPc' = "check"
    /\ webTail' = <<>>
    /\ consumed' = 0
    /\ sent' = <<>>
    /\ webEnded' = FALSE
    /\ UNCHANGED <<backendVars, opVars, genVars, loadLog, load_opts, device, model_kwargs>>

\* web.py:1263: if self.backend.is_loaded
WebCheck ==
    /\ webPc = "check"
    /\ webPc' = IF is_loaded THEN "unload" ELSE "load"
    /\ UNCHANGED <<webTail, consumed, sent, webEnded>>
    /\ UNCHANGED <<backendVars, opVars, genVars, loadLog, load_opts, device, model_kwargs>>

\* web.py:1264: self.backend.unload_model()
WebUnload ==
    /\ webPc = "unload"
    /\ UnloadModelCall
    /\ webPc' = IF raised' = "none" THEN "load" ELSE "except"
    /\ UNCHANGED <<webTail, consumed, sent, webEnded>>

\* web.py:1267-1270: load_model(model_repo, n_ctx=4096, n_gpu_layers=-1), with
\* progress_callback when the backend's load_model takes one.
WebLoad ==
    /\ webPc = "load"
    /\ \E r \in Refs : LoadModelCall(r, DefaultOptions)
    /\ webPc' = "loading"
    /\ UNCHANGED <<webTail, consumed, sent, webEnded>>

\* A worker that reports success only and puts nothing when load_model raises.
WebOutcomeNoError ==
    /\ \/ webPc = "loading" /\ pc = "idle"
       \/ webPc = "except"
    /\ webTail' = IF webPc = "loading" /\ raised = "none" /\ model_info # None
                  THEN Append(webTail, SuccessItem(model_info.name))
                  ELSE webTail
    /\ webPc' = "finally"
    /\ UNCHANGED <<consumed, sent, webEnded>>
    /\ UNCHANGED <<backendVars, opVars, genVars, loadLog, load_opts, device, model_kwargs>>

\* web.py:1272-1274: after load_model returned the worker puts the success
\* item, reading self.backend.model_info.name; any Exception of the try body
\* (also an AttributeError of that read) puts the error item instead.
WebOutcome ==
    /\ \/ webPc = "loading" /\ pc = "idle"
       \/ webPc = "except"
    /\ webTail' = IF webPc = "loading" /\ raised = "none"
                  THEN IF model_info # None
                       THEN Append(webTail, SuccessItem(model_info.name))
                       ELSE Append(webTail, ErrorItem("AttributeError"))
                  ELSE Append(webTail, ErrorItem(raised))
    /\ webPc' = "finally"
    /\ UNCHANGED <<consumed, sent, webEnded>>
    /\ UNCHANGED <<backendVars, opVars, genVars, loadLog, load_opts, device, model_kwargs>>

\* web.py:1275-1276: finally: q.put(None)
WebFinally ==
    /\ webPc = "finally"
    /\ webTail' = Append(webTail, Sentinel)
    /\ webPc' = "done"
    /\ UNCHANGED <<consumed, sent, webEnded>>
    /\ UNCHANGED <<backendVars, opVars, genVars, loadLog, load_opts, device, model_kwargs>>

\* web.py:1281-1285: item = q.get(); the sentinel ends the loop, any other
\* item is yielded as one event.
WebGet ==
    /\ webPc # "none"
    /\ ~webEnded
    /\ consumed < Len(WebQueue)
    /\ consumed' = consumed + 1
    /\ IF WebQueue[consumed + 1] = Sentinel
       THEN /\ webEnded' = TRUE
            /\ UNCHANGED sent
       ELSE /\ sent' = Append(sent, WebQueue[consumed + 1])
            /\ UNCHANGED webEnded
    /\ UNCHANGED <<webPc, webTail>>
    /\ UNCHANGED <<backendVars, opVars, genVars, loadLog, load_opts, device, model_kwargs>>

\* The load_model steps run in the worker thread; /api/stop_load
\* (web.py:1289-1293) calls cancel_loading from another request.
WebNext ==
    \/ WebRequest
    \/ WebCheck
    \/ WebUnload
    \/ WebLoad
    \/ LoadImport
    \/ LoadResolve
    \/ DownloadList
    \/ DownloadFetch
    \/ LoadExists
    \/ LoadTokenizer
    \/ LoadEngine
    \/ LoadPipeline
    \/ LoadSetLoaded
    \/ LoadMeta
    \/ LoadReturn
    \/ cancel_loading
    \/ WebOutcome
    \/ WebFinally
    \/ WebGet

SpecWeb == Init /\ [][WebNext]_vars

\* ------------------------------------------------------------------ claims
Terminal(r) == r.finish_reason \in {"stop", "length", "error"}

\* The running or last generation call was accepted (the backend was loaded).
Accepted == call.kind # "none" /\ raised = "none"

\* The backend is in the state a successful load_model leaves.
Loaded == is_loaded /\ model_info # None

\* Its generator has ended.
Finished == Accepted /\ pc \in {"g_done", "idle"}

Last(q) == q[Len(q)]

C2_TokensNonDecreasing ==
    Loaded => \A i \in 1..Len(yielded) : \A j \in i..Len(yielded) :
        yielded[i].tokens_generated <= yielded[j].tokens_generated

\* C3: once stop_generation() has been called during a streaming generate or
\* chat of the native runner, the call yields no further non-empty fragment
\* and ends with a "stop" result.  (Stated for the runs in which the engine
\* itself does not fail.)
C3_StopObserved ==
    (backend = "llamacpp" /\ Loaded /\ Accepted /\ call.stream /\ stopAt >= 0
        /\ ~engineFailed) =>
        /\ \A i \in 1..Len(yielded) : i > stopAt => yielded[i].text = ""
        /\ Finished => (Len(yielded) >= 1 /\ Last(yielded).finish_reason = "stop")

\* C4: the cancellation flag is reset when a generate or chat invocation
\* starts: while a call that no stop_generation() has followed is in flight the
\* flag is not set, and such a call runs until the engine ends.
C4_FlagResetAtStart ==
    (backend = "llamacpp" /\ Loaded /\ Accepted /\ stopCalls = 0) =>
        /\ InFlight => ~stop_event
        /\ (pc = "g_done" /\ ~engineFailed) => engine = "ended"

\* C5: however many stop_generation() calls are made during one streaming
\* call, its results hold exactly one "stop" terminal result.  (Stated for
\* the runs in which the engine itself does not fail.)
C5_OneStopResult ==
    (backend = "llamacpp" /\ Loaded /\ Finished /\ call.stream /\ stopAt >= 0
        /\ ~engineFailed) =>
        Cardinality({i \in 1..Len(yielded) : yielded[i].finish_reason = "stop"}) = 1

\* C6: generate, chat and count_tokens called on an unloaded backend raise
\* RuntimeError, yield nothing and leave is_loaded, model_info, the handles
\* and the cancellation flag as they were.
C6_UnloadedCallsRejected ==
    [][ (((\E c \in Calls : GenCall(c)) \/ count_tokens) /\ ~is_loaded) =>
            /\ raised' = "RuntimeError"
            /\ pc' = "idle"
            /\ yielded' = <<>>
            /\ UNCHANGED backendVars ]_vars

\* C6 witness: a chat on an unloaded backend whose cancellation flag had been
\* set before was rejected, and the flag is still set.
C6_Witness ==
    /\ ~is_loaded
    /\ lastOp = "chat"
    /\ raised = "RuntimeError"
    /\ stop_event
    /\ stopCalls = 0

\* C7: unload_model() on a backend that is not loaded does not fail and leaves
\* is_loaded false and model_info absent; a second unload_model() right after
\* one changes nothing at all.
C7_UnloadIdempotent ==
    [][ unload_model =>
            /\ ~is_loaded =>
                  /\ raised' = "none"
                  /\ UNCHANGED <<is_loaded, model_info>>
                  /\ model_info' = None
            /\ (lastOp = "unload" /\ raised = "none") => UNCHANGED backendVars ]_vars

\* C7 witness: an unload_model() called on an unloaded backend has returned.
C7_Witness ==
    /\ lastOp = "unload"
    /\ ~preLoaded
    /\ raised = "none"
    /\ ~is_loaded
    /\ pc = "idle"

\* C8: a load_model that starts on an unloaded backend and fails leaves it
\* unloaded: is_loaded false, model_info absent, no handle retained.
C8_FailedLoadLeavesUnloaded ==
    (pc = "idle" /\ lastOp = "load" /\ raised # "none" /\ ~preLoaded) =>
        /\ ~is_loaded
        /\ model_info = None
        /\ llm = NoHandle
        /\ model = NoHandle
        /\ tokenizer = NoHandle
        /\ pipeline = NoHandle

\* C9: in every state, those inside load_model and unload_model included,
\* is_loaded is true exactly when model_info is present.
C9_LoadedIffModelInfo ==
    is_loaded <=> model_info # None

\* C10: when hf_hub_download fails with a transient-classified error on
\* attempts 1 and 2, a third attempt is made; when that one succeeds,
\* _download_from_hf returns its path after exactly 3 fetches, and a
\* load_model that returns has loaded that file.
C10_RetrySucceedsOnThird ==
    /\ attemptLog = <<"fetch_transient", "fetch_transient">> =>
          /\ dlResult = "none"
          /\ pc \in {"dl_list", "dl_fetch"}
    /\ attemptLog = <<"fetch_transient", "fetch_transient", "fetch_ok">> =>
          /\ dlResult = "path"
          /\ fetchCalls = 3
          /\ path = DownloadedPath(ref)
          /\ (pc = "idle" /\ raised = "none") =>
                (is_loaded /\ returned = ModelInfo(backend, DownloadedPath(ref)))

\* C10 witness: such a load_model has returned.
C10_Witness ==
    /\ attemptLog = <<"fetch_transient", "fetch_transient", "fetch_ok">>
    /\ lastOp = "load"
    /\ pc = "idle"
    /\ raised = "none"
    /\ is_loaded
    /\ fetchCalls = 3

\* attemptLog entries of failures the retry policy classifies as transient.
TransientEntries == {"list_transient", "filter_transient", "fetch_transient"}

\* attemptLog entries of not-found failures (no .gguf file in the repository)
\* and of failures whose class and message hold no retry keyword.
NonTransientEntries == {"filter_transient", "filter_other", "list_other", "fetch_other"}

\* C11: a not-found failure (a repository without a .gguf file) or a failure
\* without a retry keyword on the first attempt ends the resolution there:
\* one attempt, no backoff wait, one listing, at most one fetch, and the
\* error is raised.
C11_NonTransientNotRetried ==
    (Len(attemptLog) >= 1 /\ attemptLog[1] \in NonTransientEntries) =>
        /\ Len(attemptLog) = 1
        /\ waits = <<>>
        /\ listCalls = 1
        /\ fetchCalls <= 1
        /\ dlResult = "raised"

\* C12: when every one of the max_retries attempts failed with a
\* transient-classified error, _download_from_hf has raised RuntimeError.
C12_ExhaustedRetriesRaiseRuntimeError ==
    (/\ Len(attemptLog) = max_retries
     /\ \A i \in 1..Len(attemptLog) : attemptLog[i] \in TransientEntries) =>
        /\ dlResult = "raised"
        /\ pc = "idle"
        /\ raised = "RuntimeError"

\* Upper- and lower-case forms of the letters of the quantization tags.
CasePairs ==
    {<<"Q", "q">>, <<"K", "k">>, <<"M", "m">>, <<"S", "s">>}

SameLetter(a, b) == a = b \/ <<a, b>> \in CasePairs \/ <<b, a>> \in CasePairs

\* The name of file f contains tag number k of the preference order, in any case.
HasTag(f, k) ==
    LET name == Chars(f)
        tag  == Patterns[k]
    IN  \E i \in 0..(Len(name) - Len(tag)) :
            \A j \in 1..Len(tag) : SameLetter(name[i + j], tag[j])

\* The positions of the files of a listing that end in ".gguf".
GgufPositions(fs) ==
    {i \in 1..Len(fs) :
        LET name == Chars(fs[i])
        IN  /\ Len(name) >= 5
            /\ SubSeq(name, Len(name) - 4, Len(name)) = <<".", "g", "g", "u", "f">>}

Min(S) == CHOOSE x \in S : \A y \in S : x <= y

\* The file the preference order asks for in listing fs.
ExpectedFile(fs) ==
    LET G    == GgufPositions(fs)
        tags == {k \in 1..Len(Patterns) : \E i \in G : HasTag(fs[i], k)}
    IN  IF tags = {} THEN fs[Min(G)]
        ELSE fs[Min({i \in G : HasTag(fs[i], Min(tags))})]

\* C13: when the listing has .gguf files, the file chosen is the first one
\* (in listing order) whose name holds, in any case, the earliest tag of
\* Q4_K_M, Q4_K_S, Q5_K_M, Q4_0, Q5_0 that any .gguf file holds, or the first
\* .gguf file when none holds a tag; a Q4_K_M file is chosen over a Q8_0 file
\* in either order; when the listing has no .gguf file the resolution that
\* ends there raises FileNotFoundError.
C13_ArtifactSelection ==
    /\ pc = "dl_fetch" =>
          /\ GgufPositions(files) # {}
          /\ gguf_file = ExpectedFile(files)
    /\ (pc = "dl_fetch" /\ files \in {<<"a.Q4_K_M.gguf", "c.Q8_0.gguf">>,
                                      <<"c.Q8_0.gguf", "a.Q4_K_M.gguf">>}) =>
          gguf_file = "a.Q4_K_M.gguf"
    /\ (dlResult = "raised" /\ Last(attemptLog) \in {"filter_transient", "filter_other"}) =>
          /\ GgufPositions(files) = {}
          /\ raised = "FileNotFoundError"

\* C13 witness: a lower-case Q4_K_M file listed after a Q4_K_S file and a
\* Q8_0 file has been chosen.
C13_Witness ==
    /\ pc = "dl_fetch"
    /\ files = <<"c.Q8_0.gguf", "d.Q4_K_S.gguf", "b.q4_k_m.gguf">>
    /\ gguf_file = "b.q4_k_m.gguf"

\* C14: a load_model of a repository id that found the artifact in the local
\* cache makes no list_repo_files call and no hf_hub_download call.
C14_CachedSkipsFetch ==
    (backend = "llamacpp" /\ lastOp = "load" /\ is_cached) =>
        /\ listCalls = 0
        /\ fetchCalls = 0

\* C15: after a cancel_loading() made while load_model was inside
\* _download_from_hf, the load does not reach Loaded: it ends with an error
\* and the backend unloaded.
C15_CancelStopsFetch ==
    (backend = "llamacpp" /\ lastOp = "load" /\ ~preLoaded /\ cancelAt = "fetch") =>
        /\ ~is_loaded
        /\ pc \notin {"ld_exists", "ld_engine", "ld_setloaded", "ld_meta", "ld_ready"}
        /\ pc = "idle" => raised # "none"

\* The consumer of a Transformers stream waits on an empty queue that the
\* dead producer thread will never fill.
GeneratorBlocked ==
    /\ backend = "transformers"
    /\ pc = "g_next"
    /\ queue = <<>>
    /\ engine = "crashed"

\* C16: when the engine has failed during a generate or chat on a loaded
\* backend and the generator can go no further, the generator has ended, and
\* its last result has finish_reason "error" and carries the error message.
C16_EngineFailureEndsInError ==
    (Loaded /\ Accepted /\ engineFailed /\ (Finished \/ GeneratorBlocked)) =>
        /\ Finished
        /\ Len(yielded) >= 1
        /\ Last(yielded).finish_reason = "error"
        /\ Last(yielded).text = "Error"

\* C17: a generate with stream=false on a loaded backend whose engine does not
\* fail yields exactly one result, with tokens_generated <= max_tokens and
\* finish_reason stop or length.
C17_NonStreamOneResult ==
    (Loaded /\ Finished /\ call.kind = "generate" /\ ~call.stream /\ ~engineFailed) =>
        /\ Len(yielded) = 1
        /\ yielded[1].tokens_generated <= call.max_tokens
        /\ yielded[1].finish_reason \in {"stop", "length"}

\* C18: a load_model(ref) that returns after load_model(ref), unload_model()
\* returns a ModelInfo with the name, path and context_length of the first
\* load, and leaves the backend loaded with it.
C18_RoundTrip ==
    (trip.stage = "reload" /\ lastOp = "load" /\ pc = "idle" /\ raised = "none") =>
        /\ returned.name = trip.info.name
        /\ returned.path = trip.info.path
        /\ returned.context_length = trip.info.context_length
        /\ is_loaded
        /\ model_info = returned

\* C18 witness: the second load of a repository id, which found in the cache
\* what the first load had fetched, has returned.
C18_Witness ==
    /\ trip.stage = "reload"
    /\ lastOp = "load"
    /\ pc = "idle"
    /\ raised = "none"
    /\ ref \in RemoteRefs
    /\ is_cached
    /\ returned = trip.info

\* C19: every step of a generate or chat call on a loaded backend, from the
\* call to the end of its generator, and every stop_generation() made
\* meanwhile, leaves is_loaded, model_info and the handles unchanged.
C19_GenerationKeepsLoaded ==
    [][ (Loaded /\ ((\E c \in Calls : GenCall(c)) \/ InFlight \/ pc = "g_done")) =>
            UNCHANGED <<is_loaded, model_info, llm, model, tokenizer, pipeline>> ]_vars

\* C19 witness: a chat on a loaded backend that ended with an "error" result
\* has returned, and the backend is loaded.
C19_Witness ==
    /\ Loaded
    /\ lastOp = "chat"
    /\ pc = "idle"
    /\ Len(yielded) >= 2
    /\ Last(yielded).finish_reason = "error"

\* C20: is_available() raises nothing and returns a boolean.
C20_IsAvailableNeverThrows ==
    lastOp = "is_available" =>
        /\ raised = "none"
        /\ available \in {"True", "False"}

\* C21: a load_model that fails raises FileNotFoundError, MemoryError or
\* RuntimeError, and no other exception class.
C21_LoadErrorTaxonomy ==
    (lastOp = "load" /\ pc = "idle" /\ raised # "none") =>
        raised \in {"FileNotFoundError", "MemoryError", "RuntimeError"}

\* C23: one resolution makes at most 3 attempts (listings, fetches); its
\* waits are 2 s after the first failed attempt and 4 s after the second,
\* each after a transient-classified failure; every failure that was followed
\* by another attempt was waited for, and nothing is waited for after the
\* last attempt, be it the third, a success or a non-transient failure.
C23_RetryBoundAndBackoff ==
    /\ Len(attemptLog) <= 3
    /\ listCalls <= 3
    /\ fetchCalls <= 3
    /\ waits \in {<<>>, <<2>>, <<2, 4>>}
    /\ \A k \in 1..Len(waits) : attemptLog[k] \in TransientEntries
    /\ Len(waits) = IF dlResult = "none" THEN Len(attemptLog) ELSE Len(attemptLog) - 1

\* C23 witness: three transient failures, two waits, then the error.
C23_Witness ==
    /\ Len(attemptLog) = 3
    /\ \A k \in 1..3 : attemptLog[k] \in TransientEntries
    /\ waits = <<2, 4>>
    /\ dlResult = "raised"
    /\ pc = "idle"

\* C26: a chat call of the native runner on a loaded backend that has ended
\* has yielded at least one result, and its last result is terminal.
C26_ChatYieldsTerminal ==
    (backend = "llamacpp" /\ Loaded /\ call.kind = "chat" /\ Finished) =>
        /\ Len(yielded) >= 1
        /\ Terminal(Last(yielded))

\* C27: when the engine ended a streaming chat of the native runner because
\* max_tokens was reached, the last result has finish_reason "length".
C27_ChatReportsLength ==
    (/\ backend = "llamacpp"
     /\ Loaded
     /\ call.kind = "chat"
     /\ call.stream
     /\ Finished
     /\ engine = "ended"
     /\ EngineFinish(emitted) = "length") =>
        Last(yielded).finish_reason = "length"

\* C28: the fractions reported during one load_model (in tenths) lie in
\* 0..10 and never decrease, and 1.0 is reported at most once, as the last
\* update, and only by a load that succeeded.
C28_ProgressMonotone ==
    (backend = "llamacpp" /\ lastOp = "load") =>
        /\ \A i \in 1..Len(progress) : progress[i] \in 0..10
        /\ \A i, j \in 1..Len(progress) : i <= j => progress[i] <= progress[j]
        /\ \A i \in 1..Len(progress) :
              progress[i] = 10 => (i = Len(progress) /\ pc = "idle" /\ raised = "none")
        /\ (pc = "idle" /\ raised = "none") => (progress # <<>> /\ Last(progress) = 10)

IsFragment(r) == r.finish_reason = "generating"

IsQueuedFragment(x) == x # "END"

\* C24: in a streaming generate of the Transformers backend, the fragments
\* yielded so far are the first fragments the producer emitted, in its order;
\* those not yet yielded wait in the channel, in order, so none is lost; and
\* once the "stop" result is yielded every emitted fragment has been yielded,
\* the channel is empty and the producer thread has completed.
C24_StreamOrderAndDrain ==
    (backend = "transformers" /\ Loaded /\ Accepted /\ call.stream) =>
        LET frags   == SelectSeq(yielded, IsFragment)
            waiting == SelectSeq(queue, IsQueuedFragment)
        IN  /\ \A i \in 1..Len(frags) : frags[i].text = FragmentText(i)
            /\ \A i \in 1..Len(waiting) : waiting[i] = FragmentText(Len(frags) + i)
            /\ Len(frags) + Len(waiting) = emitted
            /\ (yielded # <<>> /\ Last(yielded).finish_reason = "stop") =>
                  /\ Len(frags) = emitted
                  /\ queue = <<>>
                  /\ engine = "finished"

\* C24 witness: two fragments were emitted and yielded, then the "stop" result.
C24_Witness ==
    /\ backend = "transformers"
    /\ call.stream
    /\ pc = "g_done"
    /\ emitted = 2
    /\ Len(yielded) = 3
    /\ yielded[1].text = "tok1"
    /\ yielded[2].text = "tok2"
    /\ yielded[3].finish_reason = "stop"

\* C25: a streaming generate of the Transformers backend that has started its
\* producer thread eventually ends: the consumer yields a terminal result and
\* the generator finishes.
C25_StreamTerminates ==
    (backend = "transformers" /\ Loaded /\ call.stream /\ pc = "g_next")
        ~> (pc = "g_done" /\ yielded # <<>> /\ Terminal(Last(yielded)))

\* The events the gateway contract asks for: per result, in yield order, a
\* content delta when it has text and a finish event when it is terminal.
RECURSIVE ExpectedEvents(_)
ExpectedEvents(results) ==
    IF results = <<>> THEN <<>>
    ELSE LET r == Head(results)
         IN  (IF r.text # "" THEN <<Event("delta", r.text, "None")>> ELSE <<>>)
             \o (IF Terminal(r) THEN <<Event("finish", "", r.finish_reason)>> ELSE <<>>)
             \o ExpectedEvents(Tail(results))

\* C22: when a streaming chat or generate on a loaded backend has been
\* consumed to its end by the gateway, the response consists of one content
\* delta per result with text, in yield order, one finish event for the
\* terminal result (stop, length or error), and "[DONE]" as its last event.
C22_GatewayStream ==
    (Loaded /\ Accepted /\ call.stream /\ pc = "idle") =>
        GatewayEvents = ExpectedEvents(yielded) \o <<DoneEvent>>

\* C29: after a successful load_model of the Transformers backend, the
\* ModelInfo reports quantization "4bit" or "8bit" only if from_pretrained
\* was called with that quantization config.
C29_QuantizationReported ==
    (backend = "transformers" /\ lastOp = "load" /\ pc = "idle" /\ raised = "none") =>
        (model_info.quantization \in {"4bit", "8bit"} =>
            model_kwargs.quantization_config = model_info.quantization)

IsOutcome(item) == item.kind \in {"success", "error"}

\* C30: the events of a /api/load response are the progress updates in the
\* order load_model reported them, followed by at most one outcome event; when
\* the response has ended there is exactly one outcome event and it is the
\* last event, success exactly when load_model returned; the sentinel is put
\* once, after everything else, and it ends the response.
C30_LoadStream ==
    /\ Len(sent) <= Len(WebQueue)
    /\ \A i \in 1..Len(sent) : sent[i] = WebQueue[i]
    /\ \A i \in 1..Len(sent) :
          IF i <= Len(WebQueue) - Len(webTail)
          THEN sent[i] = ProgressItem(progress[i])
          ELSE IsOutcome(sent[i]) /\ i = Len(sent)
    /\ \A i \in 1..Len(WebQueue) :
          WebQueue[i] = Sentinel => (i = Len(WebQueue) /\ webPc = "done")
    /\ webPc = "done" =>
          /\ Last(WebQueue) = Sentinel
          /\ Len(webTail) = 2
          /\ IsOutcome(webTail[1])
    /\ (webPc = "done" /\ consumed = Len(WebQueue)) => webEnded
    /\ webEnded =>
          /\ webPc = "done"
          /\ Len(sent) = Len(progress) + 1
          /\ IsOutcome(Last(sent))
          /\ \A i \in 1..Len(progress) : sent[i] = ProgressItem(progress[i])
          /\ (Last(sent).kind = "success") <=> (lastOp = "load" /\ raised = "none")

\* A response that delivered progress updates and the success event has ended.
C30_Witness ==
    /\ webEnded
    /\ Len(sent) >= 3
    /\ Last(sent).kind = "success"
    /\ sent[1].kind = "progress"

====
